---- MODULE Spec2Model ----
(***************************************************************************)
(* Model of the investment ledger of Investment_tracker.py and of the      *)
(* allocation calculator of portfolio_calc.py.                             *)
(*                                                                         *)
(* Numbers.  A Python float is modelled as a record [nan, v]: nan says the *)
(* value is NaN, v is the value in cents.  Weights are held in hundredths  *)
(* (0.07 is 7), so amount * weight is (v * w) \div 100, which is exact for *)
(* the whole-dollar amounts the model enters: the model computes in exact  *)
(* arithmetic and leaves the rounding of binary floating point (a few      *)
(* units in the last place) out.                                           *)
(*                                                                         *)
(* Time.  datetime.now() is the variable clock, in days; a timestamp is    *)
(* the clock value at which it was taken (isoformat/fromisoformat is a     *)
(* lossless round trip for a naive datetime).                              *)
(***************************************************************************)
EXTENDS Integers, Sequences, FiniteSets, TLC

VARIABLES
    clock,  \* the wall clock, what datetime.now() returns
    file,   \* DATA_FILE on disk
    pc,     \* the tracker process: "menu" (in the loop of main) or "stopped"
    last,   \* the last operation carried out: its input, outcome and result
    weights, \* the PORTFOLIO the source file holds, weights in hundredths
    users   \* runs of the script side by side on one DATA_FILE: where each
            \* is inside its operation and the dict it holds

vars == <<clock, file, pc, last, weights, users>>

----------------------------------------------------------------------------
(* Bounds of the model *)

\* the longest ledger the model records into
MaxDeposits == 2

\* the largest amount, in dollars, the allocation is applied to directly
MaxDollars == 60

----------------------------------------------------------------------------
(* Python floats *)

F(x) == [nan |-> FALSE, v |-> x]
NaN == [nan |-> TRUE, v |-> 0]

\* a < b where a <= b was meant
FLe_strict(a, b) == ~a.nan /\ ~b.nan /\ a.v < b.v

\* a <= b, a > b on floats: every comparison with NaN is false
FLe(a, b) == ~a.nan /\ ~b.nan /\ a.v <= b.v
FGt(a, b) == ~a.nan /\ ~b.nan /\ a.v > b.v

FAdd(a, b) == IF a.nan \/ b.nan THEN NaN ELSE F(a.v + b.v)

\* amount * pct, pct a weight in hundredths
FMul(a, pct) == IF a.nan THEN NaN ELSE F((a.v * pct) \div 100)

\* a / n for a count n > 0, cut to the cent
FDiv(a, n) == IF a.nan THEN NaN ELSE F(a.v \div n)

RECURSIVE FSumSeq(_)
\* sum(xs) of a list of floats, left to right from 0
FSumSeq(xs) ==
    IF xs = <<>> THEN F(0)
    ELSE FAdd(FSumSeq(SubSeq(xs, 1, Len(xs) - 1)), xs[Len(xs)])

RECURSIVE FSumOver(_, _)
\* sum(d.values()) of a dict of floats
FSumOver(d, keys) ==
    IF keys = {} THEN F(0)
    ELSE LET k == CHOOSE x \in keys : TRUE
         IN  FAdd(FSumOver(d, keys \ {k}), d[k])

FSumDict(d) == FSumOver(d, DOMAIN d)

\* statistics.mean(xs) of a non-empty list
mean(xs) == FDiv(FSumSeq(xs), Len(xs))

----------------------------------------------------------------------------
(* The allocation rule *)

\* PORTFOLIO with QQQM mistyped as 0.30: the weights sum to 0.95
PORTFOLIO_mistyped ==
    ("ENB" :> 7) @@ ("PFE" :> 7) @@ ("Corweave" :> 7) @@ ("CEG" :> 7) @@
    ("TTWO" :> 7) @@ ("QQQM" :> 30) @@ ("BTC/ZCash" :> 30)

\* PORTFOLIO of Investment_tracker.py, weights in hundredths
PORTFOLIO ==
    ("ENB" :> 7) @@ ("PFE" :> 7) @@ ("Corweave" :> 7) @@ ("CEG" :> 7) @@
    ("TTWO" :> 7) @@ ("QQQM" :> 35) @@ ("BTC/ZCash" :> 30)

\* portfolio left behind when PORTFOLIO was rebalanced: QQQM 0.30 and
\* BTC/ZCash 0.35
portfolio_stale ==
    ("ENB" :> 7) @@ ("PFE" :> 7) @@ ("Corweave" :> 7) @@ ("CEG" :> 7) @@
    ("TTWO" :> 7) @@ ("QQQM" :> 30) @@ ("BTC/ZCash" :> 35)

\* portfolio of portfolio_calc.py, weights in hundredths
portfolio ==
    ("ENB" :> 7) @@ ("PFE" :> 7) @@ ("Corweave" :> 7) @@ ("CEG" :> 7) @@
    ("TTWO" :> 7) @@ ("QQQM" :> 35) @@ ("BTC/ZCash" :> 30)

\* the amount split evenly over the tickers, whatever their weights
Allocations_even(amount) ==
    [ticker \in DOMAIN weights |-> FDiv(amount, Cardinality(DOMAIN weights))]

\* the dict comprehension of add_deposit, over the PORTFOLIO of the source
Allocations(amount) ==
    [ticker \in DOMAIN weights |-> FMul(amount, weights[ticker])]

\* calculate_portfolio_allocation(total_amount): no check of its argument
calculate_portfolio_allocation(total_amount) ==
    [ticker \in DOMAIN portfolio |-> FMul(total_amount, portfolio[ticker])]

----------------------------------------------------------------------------
(* The data file *)

EmptyData == [deposits |-> <<>>]

\* no file on disk
NoFile == [exists |-> FALSE, valid |-> FALSE, data |-> EmptyData]

\* a file holding the JSON text of data.  json.dump followed by json.load
\* returns the data as it was: the keys are strings, the timestamps are
\* strings already, and a float (NaN too) is written in a form that reads
\* back as the same float.
FileOf(data) == [exists |-> TRUE, valid |-> TRUE, data |-> data]

\* a file cut short: empty, or a proper prefix of a JSON text
Truncated == [exists |-> TRUE, valid |-> FALSE, data |-> EmptyData]

\* load_data(): the file's data, {'deposits': []} without a file, and
\* json.JSONDecodeError (a ValueError) on a file that is no JSON text
load_data(f) ==
    IF f.exists
    THEN IF f.valid THEN [ok |-> TRUE, data |-> f.data]
                    ELSE [ok |-> FALSE, data |-> EmptyData]
    ELSE [ok |-> TRUE, data |-> EmptyData]

\* what the disk can do to a write: nothing, refuse the open, or fail the
\* write after the open has truncated the file
Faults == {"none", "open", "write"}

\* save_data that never writes
save_data_skipped(f, data, fault) == f

\* save_data(data) on file f under a fault: the file afterwards
save_data(f, data, fault) ==
    CASE fault = "none"  -> FileOf(data)
      [] fault = "open"  -> f
      [] fault = "write" -> Truncated

\* the ledger as the next load_data() of a process returns it
Ledger == load_data(file).data.deposits

----------------------------------------------------------------------------
(* Time *)

\* the lookback windows of calculate_averages, in days
WeekDays == 7
MonthDays == 30
SixMonthDays == 180
YearDays == 365

WindowDays == {WeekDays, MonthDays, SixMonthDays, YearDays}

\* the instants the clock is observed at: day 0 and, for every window, the
\* day a deposit of day 0 is last inside it and the day it is first outside
Instants == {0} \cup WindowDays \cup {d + 1 : d \in WindowDays}

\* the instants of the first eight days
NearInstants == {0, WeekDays, WeekDays + 1}

\* the instants of S that are not before t
Later(S, t) == {x \in S : x >= t}

----------------------------------------------------------------------------
(* What the user types *)

\* s.replace(',', '')
replace_commas(s) == IF s = "1,00" THEN "100" ELSE s

\* float(s): the value, or ok = FALSE for ValueError
float(s) ==
    CASE s = "50"  -> [ok |-> TRUE, value |-> F(5000)]
      [] s = "100" -> [ok |-> TRUE, value |-> F(10000)]
      [] s = "0"   -> [ok |-> TRUE, value |-> F(0)]
      [] s = "-5"  -> [ok |-> TRUE, value |-> F(-500)]
      [] s = "nan" -> [ok |-> TRUE, value |-> NaN]
      [] OTHER     -> [ok |-> FALSE, value |-> NaN]

\* the answers to "Enter deposit amount: $"
AmountInputs == {"50", "100", "1,00", "0", "-5", "nan", "abc"}

\* s.strip()
strip(s) == IF s = " YES " THEN "YES" ELSE s

\* the answers to "Type 'YES' to confirm: "
ConfirmInputs == {"YES", " YES ", "no"}

\* the floats a caller hands to the allocation: NaN and the whole-dollar
\* amounts from -MaxDollars to MaxDollars
Floats == {NaN} \cup {F(100 * d) : d \in (0 - MaxDollars)..MaxDollars}

----------------------------------------------------------------------------
(* The record of the last operation *)

None == <<>>

\* the operations that change the ledger
Mutations == {"record", "popLast", "clear"}

\* op with the answer arg ended with outcome and returned (or showed) ret;
\* pre is the file it found; after is the mutation it follows at once, if
\* the operation before it was a mutation that succeeded
Did(op, arg, outcome, pre, ret) ==
    [op |-> op, arg |-> arg, outcome |-> outcome, pre |-> pre, ret |-> ret,
     after |-> IF last.op \in Mutations /\ last.outcome = "ok"
               THEN last.op ELSE "other"]

----------------------------------------------------------------------------
(* add_deposit *)

\* the entry add_deposit builds at the instant now
Deposit(amount, now) ==
    [timestamp |-> now, amount |-> amount, allocations |-> Allocations(amount)]

\* the deposit put in front of the list: insert(0, deposit) for append
Appended_front(data, deposit) == [deposits |-> <<deposit>> \o data.deposits]

\* data after data['deposits'].append(deposit)
Appended(data, deposit) == [deposits |-> Append(data.deposits, deposit)]

\* add_deposit(amount) on file f at the instant now, under a disk fault:
\* the file afterwards, the outcome, and the deposit returned
add_deposit(f, amount, now, fault) ==
    LET loaded  == load_data(f)
        deposit == Deposit(amount, now)
        data    == Appended(loaded.data, deposit)
    IN  IF ~loaded.ok
        THEN [file |-> f, outcome |-> "JSONDecodeError", ret |-> None]
        ELSE IF fault = "none"
        THEN [file |-> save_data(f, data, fault), outcome |-> "ok",
              ret |-> deposit]
        ELSE [file |-> save_data(f, data, fault), outcome |-> "OSError",
              ret |-> None]

\* main, choice '1': parse the amount, refuse amount <= 0, add the deposit.
\* A ValueError (json.JSONDecodeError is one) is caught and reported as
\* "Please enter a valid number"; an OSError of the write is not caught.
Choice1(s, fault) ==
    /\ pc = "menu"
    /\ \E parsed \in {float(replace_commas(s))} :
           IF ~parsed.ok
           THEN /\ last' = Did("record", s, "ValueError", file, None)
                /\ UNCHANGED <<clock, file, pc, weights, users>>
           ELSE IF FLe(parsed.value, F(0))
           THEN /\ last' = Did("record", s, "InvalidAmount", file, None)
                /\ UNCHANGED <<clock, file, pc, weights, users>>
           ELSE /\ Len(load_data(file).data.deposits) < MaxDeposits
                /\ \E r \in {add_deposit(file, parsed.value, clock, fault)} :
                       /\ file' = r.file
                       /\ last' = Did("record", s,
                                      IF r.outcome = "JSONDecodeError"
                                      THEN "ValueError" ELSE r.outcome,
                                      file, r.ret)
                       /\ pc' = IF r.outcome = "OSError" THEN "stopped" ELSE pc
                /\ UNCHANGED <<clock, weights, users>>

----------------------------------------------------------------------------
(* delete_last_deposit *)

\* data after data['deposits'].pop(0)
Popped_first(data) == [deposits |-> Tail(data.deposits)]

\* data after data['deposits'].pop()
Popped(data) ==
    [deposits |-> SubSeq(data.deposits, 1, Len(data.deposits) - 1)]

\* delete_last_deposit without its check for an empty ledger, and with a
\* pop that bears an empty list
delete_last_deposit_unchecked(f, confirm, fault) ==
    LET loaded == load_data(f)
        data   == loaded.data
        last_deposit == IF data.deposits = <<>> THEN None
                        ELSE data.deposits[Len(data.deposits)]
        popped == [deposits |-> SubSeq(data.deposits, 1, Len(data.deposits) - 1)]
    IN  IF ~loaded.ok
        THEN [file |-> f, outcome |-> "JSONDecodeError", ret |-> None]
        ELSE IF strip(confirm) # "YES"
        THEN [file |-> f, outcome |-> "cancelled", ret |-> last_deposit]
        ELSE IF fault = "none"
        THEN [file |-> save_data(f, popped, fault), outcome |-> "ok",
              ret |-> last_deposit]
        ELSE [file |-> save_data(f, popped, fault),
              outcome |-> "OSError", ret |-> last_deposit]

\* delete_last_deposit() on file f with the answer confirm, under a disk
\* fault: the file afterwards, the outcome, and the deposit shown
delete_last_deposit(f, confirm, fault) ==
    LET loaded == load_data(f)
        data   == loaded.data
        last_deposit == data.deposits[Len(data.deposits)]
    IN  IF ~loaded.ok
        THEN [file |-> f, outcome |-> "JSONDecodeError", ret |-> None]
        ELSE IF data.deposits = <<>>
        THEN [file |-> f, outcome |-> "EmptyLedger", ret |-> None]
        ELSE IF strip(confirm) # "YES"
        THEN [file |-> f, outcome |-> "cancelled", ret |-> last_deposit]
        ELSE IF fault = "none"
        THEN [file |-> save_data(f, Popped(data), fault), outcome |-> "ok",
              ret |-> last_deposit]
        ELSE [file |-> save_data(f, Popped(data), fault),
              outcome |-> "OSError", ret |-> last_deposit]

\* main, choice '4'; no exception is caught
Choice4(confirm, fault) ==
    /\ pc = "menu"
    /\ \E r \in {delete_last_deposit(file, confirm, fault)} :
           /\ file' = r.file
           /\ last' = Did("popLast", confirm, r.outcome, file, r.ret)
           /\ pc' = IF r.outcome \in {"OSError", "JSONDecodeError"}
                    THEN "stopped" ELSE pc
    /\ UNCHANGED <<clock, weights, users>>

----------------------------------------------------------------------------
(* reset_data *)

\* what the disk can do to os.remove: nothing, or refuse it
RemoveFaults == {"none", "remove"}

\* reset_data that removes the file whatever the answer, and reports the
\* reset cancelled on an answer that is not YES
reset_data_unasked(f, confirm, fault) ==
    IF f.exists /\ fault = "remove"
    THEN [file |-> f, outcome |-> "OSError"]
    ELSE [file |-> NoFile,
          outcome |-> IF strip(confirm) # "YES" THEN "cancelled" ELSE "ok"]

\* reset_data without its os.path.exists check: os.remove of a file that is
\* not there raises FileNotFoundError
reset_data_unguarded(f, confirm, fault) ==
    IF strip(confirm) # "YES"
    THEN [file |-> f, outcome |-> "cancelled"]
    ELSE IF ~f.exists \/ fault = "remove"
    THEN [file |-> f, outcome |-> "OSError"]
    ELSE [file |-> NoFile, outcome |-> "ok"]

\* reset_data() on file f with the answer confirm: the file is removed,
\* not read, so a file that is no JSON text is removed too
reset_data(f, confirm, fault) ==
    IF strip(confirm) # "YES"
    THEN [file |-> f, outcome |-> "cancelled"]
    ELSE IF f.exists /\ fault = "remove"
    THEN [file |-> f, outcome |-> "OSError"]
    ELSE [file |-> NoFile, outcome |-> "ok"]

\* main, choice '5'
Choice5(confirm, fault) ==
    /\ pc = "menu"
    /\ \E r \in {reset_data(file, confirm, fault)} :
           /\ file' = r.file
           /\ last' = Did("clear", confirm, r.outcome, file, None)
           /\ pc' = IF r.outcome = "OSError" THEN "stopped" ELSE pc
    /\ UNCHANGED <<clock, weights, users>>

----------------------------------------------------------------------------
(* Statistics *)

\* [d['amount'] for d in deposits]
Amounts(deposits) == [i \in 1..Len(deposits) |-> deposits[i].amount]

\* get_deposits_in_range with > for >=: a deposit stamped at the cutoff is
\* left out
get_deposits_in_range_exclusive(deposits, days, now) ==
    LET cutoff == now - days
        InRange(d) == d.timestamp > cutoff
    IN  SelectSeq(deposits, InRange)

\* get_deposits_in_range(deposits, days), its datetime.now() returning now
get_deposits_in_range(deposits, days, now) ==
    LET cutoff == now - days
        InRange(d) == d.timestamp >= cutoff
    IN  SelectSeq(deposits, InRange)

\* a mean that is NaN for a window without deposits
WindowMean_nan(window) ==
    IF window # <<>> THEN mean(Amounts(window)) ELSE NaN

\* mean of the amounts of a window, 0 for a window without deposits
WindowMean(window) == IF window # <<>> THEN mean(Amounts(window)) ELSE F(0)

\* calculate_averages(deposits): reads[i] is what datetime.now() returns in
\* the i-th call of get_deposits_in_range; the now of line 88 is not used
calculate_averages(deposits, reads) ==
    IF deposits = <<>> THEN None
    ELSE LET week_deposits      == get_deposits_in_range(deposits, WeekDays, reads[1])
             month_deposits     == get_deposits_in_range(deposits, MonthDays, reads[2])
             six_month_deposits == get_deposits_in_range(deposits, SixMonthDays, reads[3])
             year_deposits      == get_deposits_in_range(deposits, YearDays, reads[4])
         IN  [averages |->
                [week       |-> WindowMean(week_deposits),
                 month      |-> WindowMean(month_deposits),
                 six_months |-> WindowMean(six_month_deposits),
                 year       |-> WindowMean(year_deposits),
                 all_time   |-> mean(Amounts(deposits))],
              counts |->
                [week       |-> Len(week_deposits),
                 month      |-> Len(month_deposits),
                 six_months |-> Len(six_month_deposits),
                 year       |-> Len(year_deposits),
                 all_time   |-> Len(deposits)]]

RECURSIVE TickerTotal(_, _)
\* portfolio_totals[ticker] after the loop of lines 145-147 over deposits
TickerTotal(deposits, ticker) ==
    IF deposits = <<>> THEN F(0)
    ELSE LET rest == TickerTotal(SubSeq(deposits, 1, Len(deposits) - 1), ticker)
             allocations == deposits[Len(deposits)].allocations
         IN  IF ticker \in DOMAIN allocations
             THEN FAdd(rest, allocations[ticker])
             ELSE rest

\* the loop of lines 145-147 raises KeyError on a ticker PORTFOLIO lacks
TotalsKeyError(deposits) ==
    \E i \in 1..Len(deposits) :
        ~(DOMAIN deposits[i].allocations \subseteq DOMAIN weights)

portfolio_totals(deposits) ==
    [ticker \in DOMAIN weights |-> TickerTotal(deposits, ticker)]

\* display_statistics without its check for an empty ledger: the None of
\* calculate_averages is unpacked
display_statistics_unchecked(f, reads) ==
    LET loaded   == load_data(f)
        deposits == loaded.data.deposits
        stats    == calculate_averages(deposits, reads)
    IN  IF ~loaded.ok
        THEN [outcome |-> "JSONDecodeError", ret |-> None]
        ELSE IF deposits = <<>>
        THEN [outcome |-> "TypeError", ret |-> None]
        ELSE [outcome |-> "ok",
              ret |-> [total_deposits   |-> Len(deposits),
                       total_invested   |-> FSumSeq(Amounts(deposits)),
                       averages         |-> stats.averages,
                       counts           |-> stats.counts,
                       portfolio_totals |-> portfolio_totals(deposits)]]

\* display_statistics() on file f: the outcome and what is shown
display_statistics(f, reads) ==
    LET loaded   == load_data(f)
        deposits == loaded.data.deposits
        stats    == calculate_averages(deposits, reads)
    IN  IF ~loaded.ok
        THEN [outcome |-> "JSONDecodeError", ret |-> None]
        ELSE IF deposits = <<>>
        THEN [outcome |-> "no_deposits", ret |-> None]
        ELSE IF TotalsKeyError(deposits)
        THEN [outcome |-> "KeyError", ret |-> None]
        ELSE [outcome |-> "ok",
              ret |-> [total_deposits   |-> Len(deposits),
                       total_invested   |-> FSumSeq(Amounts(deposits)),
                       averages         |-> stats.averages,
                       counts           |-> stats.counts,
                       portfolio_totals |-> portfolio_totals(deposits)]]

\* main, choice '2'; no exception is caught
Choice2(reads) ==
    /\ pc = "menu"
    /\ \E r \in {display_statistics(file, reads)} :
           /\ last' = Did("statistics", None, r.outcome, file, r.ret)
           /\ pc' = IF r.outcome \in {"JSONDecodeError", "KeyError"}
                    THEN "stopped" ELSE pc
    /\ clock' = reads[4]
    /\ UNCHANGED <<file, weights, users>>

----------------------------------------------------------------------------
(* History *)

\* view_history's default limit
DefaultLimit == 10

\* int(s): the value, or ok = FALSE for ValueError
int(s) ==
    CASE s = "0"  -> [ok |-> TRUE, value |-> 0]
      [] s = "1"  -> [ok |-> TRUE, value |-> 1]
      [] s = "2"  -> [ok |-> TRUE, value |-> 2]
      [] s = "-1" -> [ok |-> TRUE, value |-> -1]
      [] OTHER    -> [ok |-> FALSE, value |-> 0]

\* the answers to "How many recent deposits to show?"
LimitInputs == {"", "0", "1", "2", "-1", "abc"}

Min(a, b) == IF a <= b THEN a ELSE b
Max(a, b) == IF a >= b THEN a ELSE b

\* xs[start:], Python's slice from an index that may be negative
SliceFrom(xs, start) ==
    LET n    == Len(xs)
        from == IF start < 0 THEN Max(start + n, 0) ELSE Min(start, n)
    IN  SubSeq(xs, from + 1, n)

\* reversed(xs)
Reversed(xs) == [i \in 1..Len(xs) |-> xs[Len(xs) + 1 - i]]

\* view_history(limit) on file f: the outcome, the number the header
\* announces and the rows listed
view_history(f, limit) ==
    LET loaded   == load_data(f)
        deposits == loaded.data.deposits
    IN  IF ~loaded.ok
        THEN [outcome |-> "JSONDecodeError", ret |-> None]
        ELSE IF deposits = <<>>
        THEN [outcome |-> "no_deposits", ret |-> None]
        ELSE [outcome |-> "ok",
              ret |-> [header |-> Min(limit, Len(deposits)),
                       rows   |-> Reversed(SliceFrom(deposits, 0 - limit))]]

\* the limit main makes of the answer s
Limit(s) ==
    IF s = "" THEN DefaultLimit
    ELSE IF int(s).ok THEN int(s).value ELSE DefaultLimit

\* choice '3' with a view_history that keeps the rows it lists: the slice
\* is put back into the dict and the dict saved
Choice3_trimming(s) ==
    /\ pc = "menu"
    /\ \E r \in {view_history(file, Limit(s))} :
           /\ last' = Did("history", s, r.outcome, file, r.ret)
           /\ pc' = IF r.outcome = "JSONDecodeError" THEN "stopped" ELSE pc
           /\ file' = IF r.outcome = "ok"
                      THEN FileOf([deposits |-> Reversed(r.ret.rows)])
                      ELSE file
    /\ UNCHANGED <<clock, weights, users>>

\* main, choice '3': an empty answer is the default limit, an answer that
\* is no integer falls back to view_history(10); a ValueError raised inside
\* view_history(limit) is caught too and view_history(10) raises it again
Choice3(s) ==
    /\ pc = "menu"
    /\ \E r \in {view_history(file, Limit(s))} :
           /\ last' = Did("history", s, r.outcome, file, r.ret)
           /\ pc' = IF r.outcome = "JSONDecodeError" THEN "stopped" ELSE pc
    /\ UNCHANGED <<clock, file, weights, users>>

----------------------------------------------------------------------------
(* The process and its environment *)

\* the runs of the script that share DATA_FILE
Users == {"first", "second"}

\* a run at its menu: it holds no dict; calls is the number of operations
\* it has begun, net the records it has added less those it has deleted
Idle(calls, net) ==
    [at |-> "menu", op |-> "none", data |-> EmptyData,
     calls |-> calls, net |-> net]

\* main, choice '6': the loop ends
Choice6 ==
    /\ pc = "menu"
    /\ pc' = "stopped"
    /\ last' = Did("exit", None, "ok", file, None)
    /\ UNCHANGED <<clock, file, weights, users>>

\* the script is run (again): main enters its loop; nothing is loaded
Start ==
    /\ pc = "stopped"
    /\ pc' = "menu"
    /\ last' = Did("start", None, "ok", file, None)
    /\ UNCHANGED <<clock, file, weights, users>>

\* time passes
Tick(t) ==
    /\ t > clock
    /\ clock' = t
    /\ UNCHANGED <<file, pc, last, weights, users>>

----------------------------------------------------------------------------
(* portfolio_calc.py *)

\* the answers to "Enter total investment amount (or 'q' to quit): $"
CalcInputs == AmountInputs \cup {"q"}

\* the loop of portfolio_calc.main without its check of the amount
calc_main_unchecked(s) ==
    LET parsed == float(replace_commas(s))
        allocations == calculate_portfolio_allocation(parsed.value)
    IN  IF s = "q" THEN [outcome |-> "quit", ret |-> None]
        ELSE IF ~parsed.ok THEN [outcome |-> "ValueError", ret |-> None]
        ELSE [outcome |-> "ok",
              ret |-> [allocations |-> allocations,
                       total_allocated |-> FSumDict(allocations)]]

\* one round of the loop of portfolio_calc.main: the outcome, and the
\* allocations and the total display_allocations shows
calc_main(s) ==
    LET parsed == float(replace_commas(s))
        total_amount == parsed.value
        allocations  == calculate_portfolio_allocation(total_amount)
    IN  IF s = "q" THEN [outcome |-> "quit", ret |-> None]
        ELSE IF ~parsed.ok THEN [outcome |-> "ValueError", ret |-> None]
        ELSE IF FLe(total_amount, F(0))
        THEN [outcome |-> "InvalidAmount", ret |-> None]
        ELSE [outcome |-> "ok",
              ret |-> [allocations |-> allocations,
                       total_allocated |-> FSumDict(allocations)]]

\* the calculator is run and given one answer
Calculator(s) ==
    /\ \E r \in {calc_main(s)} :
           last' = Did("calculator", s, r.outcome, file, r.ret)
    /\ UNCHANGED <<clock, file, pc, weights, users>>

\* calculate_portfolio_allocation is called with a float
Allocate(total_amount) ==
    /\ last' = Did("allocate", total_amount, "ok", file,
                   calculate_portfolio_allocation(total_amount))
    /\ UNCHANGED <<clock, file, pc, weights, users>>

---------------------------------------------------------------------------------------------------------------------------------------------------
(* The specifications *)

Init ==
    /\ clock = 0
    /\ file = NoFile
    /\ pc = "stopped"
    /\ last = [op |-> "none", arg |-> None, outcome |-> "ok", pre |-> NoFile,
               ret |-> None, after |-> "other"]
    /\ weights = PORTFOLIO
    /\ users = [u \in Users |-> Idle(0, 0)]

\* get_deposits_in_range(deposits, days) is called on the ledger, as
\* calculate_averages calls it: it reads the clock and returns the members
DepositsInRange(days) ==
    /\ pc = "menu"
    /\ load_data(file).ok
    /\ last' = Did("in_range", days, "ok", file,
                   [now |-> clock,
                    members |-> get_deposits_in_range(Ledger, days, clock)])
    /\ UNCHANGED <<clock, file, pc, weights, users>>

\* choice '2' with the clock read four times, at instants of S: the clock
\* never runs backward, and may advance between any two reads
Statistics(S) ==
    \E r1 \in Later(S, clock) : \E r2 \in Later(S, r1) :
    \E r3 \in Later(S, r2) : \E r4 \in Later(S, r3) :
        Choice2(<<r1, r2, r3, r4>>)

\* The tracker over the first eight days, on a disk that may fail.
Next ==
    \/ Start
    \/ \E s \in AmountInputs, fault \in Faults : Choice1(s, fault)
    \/ Statistics(NearInstants)
    \/ \E s \in LimitInputs : Choice3(s)
    \/ \E confirm \in ConfirmInputs, fault \in Faults : Choice4(confirm, fault)
    \/ \E confirm \in ConfirmInputs, fault \in RemoveFaults : Choice5(confirm, fault)
    \/ Choice6
    \/ \E t \in NearInstants : Tick(t)

Spec == Init /\ [][Next]_vars

\* the amounts recorded in the histories statistics are taken of
StatsAmounts == {"50", "100"}

\* Deposits and statistics over more than a year, on a disk that works.
NextClock ==
    \/ Start
    \/ \E s \in StatsAmounts : Choice1(s, "none")
    \/ Statistics(Instants)
    \/ \E t \in Instants : Tick(t)

SpecClock == Init /\ [][NextClock]_vars

\* The calculator, and the allocation applied to any float.
NextCalc ==
    \/ \E s \in CalcInputs : Calculator(s)
    \/ \E a \in Floats : Allocate(a)

SpecCalc == Init /\ [][NextCalc]_vars

\* what a caller may do to the dict load_data() gave it
Changes == {"pop", "clear", "amount"}

\* the dict after the change m: its last deposit popped, its list cleared,
\* or the amount of its first deposit set to 0
Changed(data, m) ==
    CASE m = "pop"    -> Popped(data)
      [] m = "clear"  -> [deposits |-> <<>>]
      [] m = "amount" -> [deposits |->
                             [data.deposits EXCEPT ![1].amount = F(0)]]

\* a module that keeps the dict it loaded and hands the same object out:
\* what the caller does to it is what the next load returns
Unsaved_shared(f, data) == FileOf(data)

\* DATA_FILE after a caller changed the dict load_data() returned and did
\* not call save_data: json.load built the dict for this call alone, the
\* module keeps no reference to it, and the file is as it was
Unsaved(f, data) == f

\* a caller takes the ledger from load_data() and changes what it got
Borrow(m) ==
    /\ pc = "menu"
    /\ load_data(file).ok
    /\ Ledger # <<>>
    /\ \E changed \in {Changed(load_data(file).data, m)} :
           /\ file' = Unsaved(file, changed)
           /\ last' = Did("borrow", m, "ok", file, changed)
    /\ UNCHANGED <<clock, pc, weights, users>>

\* Deposits, the history shown, and callers that change what they loaded.
NextView ==
    \/ Start
    \/ \E s \in StatsAmounts : Choice1(s, "none")
    \/ \E s \in LimitInputs : Choice3(s)
    \/ \E m \in Changes : Borrow(m)

SpecView == Init /\ [][NextView]_vars

\* Deposits, the passing of time, and one window taken at a time.
NextRange ==
    \/ Start
    \/ \E s \in StatsAmounts : Choice1(s, "none")
    \/ \E days \in WindowDays : DepositsInRange(days)
    \/ \E t \in Instants : Tick(t)

SpecRange == Init /\ [][NextRange]_vars

\* PORTFOLIO as the source would hold it with QQQM entered as 0.30: the
\* weights sum to 0.95
Underweight == [PORTFOLIO EXCEPT !["QQQM"] = 30]

\* PORTFOLIO with ENB removed and its weight given to QQQM
Dropped ==
    ("PFE" :> 7) @@ ("Corweave" :> 7) @@ ("CEG" :> 7) @@ ("TTWO" :> 7) @@
    ("QQQM" :> 42) @@ ("BTC/ZCash" :> 30)

\* PORTFOLIO with a ticker added, its weight taken from QQQM
Extended == ("VOO" :> 7) @@ [PORTFOLIO EXCEPT !["QQQM"] = 28]

\* the tables the source file is given
WeightTables == {PORTFOLIO, Underweight, Dropped, Extended}

\* PORTFOLIO is edited in the source while the script is not running
Configure(table) ==
    /\ pc = "stopped"
    /\ table # weights
    /\ weights' = table
    /\ last' = Did("configure", None, "ok", file, None)
    /\ UNCHANGED <<clock, file, pc, users>>

\* the script with any of the tables in its source
InitConfig ==
    /\ clock = 0
    /\ file = NoFile
    /\ pc = "stopped"
    /\ last = [op |-> "none", arg |-> None, outcome |-> "ok", pre |-> NoFile,
               ret |-> None, after |-> "other"]
    /\ weights \in WeightTables
    /\ users = [u \in Users |-> Idle(0, 0)]

\* The tracker run, and run again, with one table or another.
NextConfig ==
    \/ Start
    \/ \E s \in StatsAmounts : Choice1(s, "none")
    \/ Statistics({0})
    \/ Choice6
    \/ \E table \in WeightTables : Configure(table)

SpecConfig == InitConfig /\ [][NextConfig]_vars

----------------------------------------------------------------------------
(* Two runs of the script on one DATA_FILE *)

\* the operations a run may begin
MaxCalls == 2

\* the amount each run types at choice '1'
Typed(u) == IF u = "first" THEN "50" ELSE "100"

\* user u is at `at`, inside op, holding data
Inside(u, at, op, data) ==
    [users EXCEPT ![u] = [at |-> at, op |-> op, data |-> data,
                          calls |-> users[u].calls, net |-> users[u].net]]

\* choice '1', add_deposit up to its save_data: the file is loaded and the
\* deposit appended to the dict in memory
BeginRecord(u) ==
    /\ users[u].at = "menu"
    /\ users[u].calls < MaxCalls
    /\ load_data(file).ok
    /\ Len(Ledger) < MaxDeposits
    /\ users' = [users EXCEPT ![u] =
                     [at |-> "save", op |-> "record",
                      data |-> Appended(load_data(file).data,
                                        Deposit(float(Typed(u)).value, clock)),
                      calls |-> @.calls + 1, net |-> @.net]]
    /\ UNCHANGED <<clock, file, pc, last, weights>>

\* choice '4', delete_last_deposit up to its prompt: the file is loaded
\* and, unless it holds no deposit, the last deposit is shown
BeginPop(u) ==
    /\ users[u].at = "menu"
    /\ users[u].calls < MaxCalls
    /\ load_data(file).ok
    /\ users' = [users EXCEPT ![u] =
                     IF Ledger = <<>>
                     THEN Idle(@.calls + 1, @.net)
                     ELSE [at |-> "prompt", op |-> "popLast",
                           data |-> load_data(file).data,
                           calls |-> @.calls + 1, net |-> @.net]]
    /\ UNCHANGED <<clock, file, pc, last, weights>>

\* the prompt of delete_last_deposit is answered: on YES the last deposit
\* is popped from the dict loaded before the prompt
Answer(u, confirm) ==
    /\ users[u].at = "prompt"
    /\ users' = IF strip(confirm) = "YES"
                THEN Inside(u, "save", "popLast", Popped(users[u].data))
                ELSE [users EXCEPT ![u] = Idle(@.calls, @.net)]
    /\ UNCHANGED <<clock, file, pc, last, weights>>

\* save_data, open(DATA_FILE, 'w'): the file is cut to nothing
Open(u) ==
    /\ users[u].at = "save"
    /\ file' = Truncated
    /\ users' = Inside(u, "write", users[u].op, users[u].data)
    /\ UNCHANGED <<clock, pc, last, weights>>

\* the file after the text of data is written from its start and the file
\* closed: the text alone, unless another run has written a longer text
\* since this one opened the file, whose tail then stays behind it
Written(f, data) ==
    IF f.valid /\ Len(f.data.deposits) > Len(data.deposits)
    THEN Truncated
    ELSE FileOf(data)

\* save_data, json.dump and the end of the with block; the operation is
\* over and the run back at its menu
Write(u) ==
    /\ users[u].at = "write"
    /\ file' = Written(file, users[u].data)
    /\ users' = [users EXCEPT ![u] =
                     Idle(@.calls,
                          IF @.op = "record" THEN @.net + 1 ELSE @.net - 1)]
    /\ UNCHANGED <<clock, pc, last, weights>>

\* a run at its menu reads the ledger (load_data, as choices '2' and '3'
\* begin)
Read(u) ==
    /\ users[u].at = "menu"
    /\ last' = Did("read", u,
                   IF load_data(file).ok THEN "ok" ELSE "JSONDecodeError",
                   file, None)
    /\ UNCHANGED <<clock, file, pc, weights, users>>

\* Two runs, each taking the steps of its operations in any order with
\* the other's.
NextUsers ==
    \E u \in Users :
        \/ BeginRecord(u)
        \/ BeginPop(u)
        \/ \E confirm \in ConfirmInputs : Answer(u, confirm)
        \/ Open(u)
        \/ Write(u)
        \/ Read(u)

SpecUsers == Init /\ [][NextUsers]_vars

----------------------------------------------------------------------------
(* Properties *)

\* the ledger an operation found
LedgerBefore == load_data(last.pre).data.deposits

\* the operation found a file it could load, or none
LoadedBefore == load_data(last.pre).ok

\* the last operation was op and succeeded
Succeeded(op) == last.op = op /\ last.outcome = "ok"

\* C1: for every amount > 0, the allocation of the deposit recorded has
\* exactly the tickers of PORTFOLIO as its keys and its values sum to the
\* amount; the deposit is the entry the ledger now ends with.
AllocationCompleteness ==
    (Succeeded("record") /\ FGt(last.ret.amount, F(0))) =>
        /\ DOMAIN last.ret.allocations = DOMAIN PORTFOLIO
        /\ FSumDict(last.ret.allocations) = last.ret.amount
        /\ Ledger # <<>> /\ Ledger[Len(Ledger)] = last.ret

\* a deposit of $100 is recorded after another: $35 of it go to QQQM
AllocationCompletenessWitness ==
    /\ Succeeded("record")
    /\ last.ret.amount = F(10000)
    /\ last.ret.allocations["QQQM"] = F(3500)
    /\ Len(Ledger) = 2

\* C2: a deposit deleted right after it was recorded is the deposit just
\* recorded, with its amount and its allocations, and the ledger is again
\* the ledger the recording found.
AppendPopInverse ==
    [][(last'.op = "popLast" /\ last'.outcome = "ok" /\ last'.after = "record"
        /\ last.op = "record")
       => /\ last'.ret.amount = last.ret.amount
          /\ last'.ret.allocations = last.ret.allocations
          /\ Ledger' = LedgerBefore]_vars

\* $50 were recorded into a ledger of one deposit and deleted at once
AppendPopInverseWitness ==
    /\ Succeeded("popLast")
    /\ last.after = "record"
    /\ last.ret.amount = F(5000)
    /\ Len(Ledger) = 1

\* C3: a mutation whose write fails is reported as failed and leaves the
\* ledger, as loaded from storage, as it was before the mutation.
FailedWriteRollsBack ==
    (last.op \in Mutations /\ last.outcome = "OSError") =>
        load_data(file) = load_data(last.pre)

\* C4: after every mutation that succeeded, the ledger loaded from storage
\* is the ledger the mutation results in: the ledger found with the new
\* deposit appended, with its last deposit removed, or empty.
PersistedAfterMutation ==
    /\ Succeeded("record") =>
           load_data(file).ok /\ Ledger = Append(LedgerBefore, last.ret)
    /\ Succeeded("popLast") =>
           /\ load_data(file).ok
           /\ LedgerBefore = Append(Ledger, last.ret)
    /\ Succeeded("clear") =>
           load_data(file).ok /\ Ledger = <<>>

\* a deposit was deleted from a ledger of two and one is left on disk
PersistedAfterMutationWitness ==
    /\ Succeeded("popLast")
    /\ Len(LedgerBefore) = 2
    /\ file.exists /\ Len(file.data.deposits) = 1

\* the window names of calculate_averages
WindowNames == {"week", "month", "six_months", "year", "all_time"}

InvalidAmountRejected ==
    (last.op = "record" /\ last.arg \in {"0", "-5"}) =>
        /\ last.outcome = "InvalidAmount"
        /\ last.ret = None
        /\ file = last.pre

\* -5 was entered with one deposit in the ledger
InvalidAmountRejectedWitness ==
    /\ last.op = "record" /\ last.arg = "-5"
    /\ last.outcome = "InvalidAmount"
    /\ Len(Ledger) = 1

PopLastOnEmpty ==
    (last.op = "popLast" /\ LoadedBefore /\ LedgerBefore = <<>>) =>
        /\ last.outcome = "EmptyLedger"
        /\ last.ret = None
        /\ file = last.pre

\* a deletion was asked for with no file on disk
PopLastOnEmptyWitness ==
    /\ last.op = "popLast"
    /\ last.outcome = "EmptyLedger"
    /\ ~file.exists

\* C11: a reset empties the ledger, a reset that follows a reset finds no
\* file and raises no error, and a deposit recorded right after a reset
\* makes a ledger of exactly one record.
ClearTwiceThenRecord ==
    /\ Succeeded("clear") => ~file.exists /\ Ledger = <<>>
    /\ (last.op = "clear" /\ strip(last.arg) = "YES" /\ last.after = "clear") =>
           last.outcome = "ok"
    /\ (Succeeded("record") /\ last.after = "clear") =>
           Ledger = <<last.ret>>

\* a reset was confirmed right after a reset
ClearTwiceThenRecordWitness ==
    /\ Succeeded("clear")
    /\ last.after = "clear"
    /\ ~last.pre.exists
    /\ Ledger = <<>>

\* a deposit was recorded right after a reset
RecordAfterClearWitness ==
    /\ Succeeded("record")
    /\ last.after = "clear"
    /\ Len(Ledger) = 1

\* a == b of two Python floats: never true of a NaN; a tolerance around b
\* makes no difference to that
FEq(a, b) == ~a.nan /\ ~b.nan /\ a.v = b.v

\* every amount of the ledger is a number above zero
AllPositive(deposits) ==
    \A i \in 1..Len(deposits) : FGt(deposits[i].amount, F(0))

RECURSIVE CentsOver(_, _)
\* the sum of the cents c[i], i in S
CentsOver(c, S) ==
    IF S = {} THEN 0
    ELSE LET i == CHOOSE x \in S : TRUE
         IN  c[i] + CentsOver(c, S \ {i})

\* C12: whenever statistics are shown, the total invested equals the sum of
\* the totals per ticker.
TotalsRoundTrip ==
    Succeeded("statistics") =>
        FEq(last.ret.total_invested, FSumDict(last.ret.portfolio_totals))

\* the same of the ledgers that hold no amount but numbers above zero
TotalsRoundTripPositive ==
    (Succeeded("statistics") /\ AllPositive(LedgerBefore)) =>
        FEq(last.ret.total_invested, FSumDict(last.ret.portfolio_totals))

\* statistics of two deposits above zero
TotalsRoundTripPositiveWitness ==
    /\ Succeeded("statistics")
    /\ AllPositive(LedgerBefore)
    /\ Len(LedgerBefore) = 2
    /\ last.ret.total_invested = F(15000)

\* C13: the statistics report, per ticker, the sum of what the records
\* allocated to it, and as the number of deposits the number of records.
TotalsArePerTickerSums ==
    Succeeded("statistics") =>
        /\ last.ret.total_deposits = Len(LedgerBefore)
        /\ \A ticker \in DOMAIN PORTFOLIO :
               FEq(last.ret.portfolio_totals[ticker],
                   F(CentsOver([i \in 1..Len(LedgerBefore) |->
                                   LedgerBefore[i].allocations[ticker].v],
                               1..Len(LedgerBefore))))

\* the same of the ledgers that hold no amount but numbers above zero
TotalsArePerTickerSumsPositive ==
    (Succeeded("statistics") /\ AllPositive(LedgerBefore)) =>
        TotalsArePerTickerSums

\* 100 and then 50 were recorded: QQQM holds 35 + 17.50
TotalsArePerTickerSumsPositiveWitness ==
    /\ Succeeded("statistics")
    /\ Amounts(LedgerBefore) = <<F(10000), F(5000)>>
    /\ last.ret.portfolio_totals["QQQM"] = F(5250)
    /\ last.ret.total_deposits = 2

\* C14: a deposit of an amount above zero allocates to each ticker the
\* amount times the ticker's weight (weights in hundredths, values in cents).
AllocationIsAmountTimesWeight ==
    (Succeeded("record") /\ FGt(last.ret.amount, F(0))) =>
        \A ticker \in DOMAIN PORTFOLIO :
            /\ ~last.ret.allocations[ticker].nan
            /\ last.ret.allocations[ticker].v * 100 =
                   last.ret.amount.v * PORTFOLIO[ticker]

\* 50 was recorded: 3.50 to ENB, 17.50 to QQQM, 15 to BTC/ZCash
AllocationIsAmountTimesWeightWitness ==
    /\ Succeeded("record")
    /\ last.ret.amount = F(5000)
    /\ last.ret.allocations["ENB"] = F(350)
    /\ last.ret.allocations["QQQM"] = F(1750)
    /\ last.ret.allocations["BTC/ZCash"] = F(1500)

\* the sum of the weights of a table, in hundredths
WeightSum(table) == CentsOver(table, DOMAIN table)

\* C15: with a table whose weights do not sum to 1 in its source the script
\* does not reach its menu and records no deposit.
BadWeightsRefuseStart ==
    WeightSum(weights) # 100 => (pc = "stopped" /\ ~Succeeded("record"))

\* every weight of the table is above 0 and at most 1, and the weights sum
\* to 1 (100 hundredths)
IsWeightTable(table) ==
    /\ \A ticker \in DOMAIN table : 0 < table[ticker] /\ table[ticker] <= 100
    /\ WeightSum(table) = 100

\* C16: the table the tracker runs with, and the table of the calculator,
\* give every ticker a weight in (0, 1] and their weights sum to exactly 1.
WeightTableSumsToOne ==
    /\ IsWeightTable(weights)
    /\ IsWeightTable(portfolio)

\* a deposit was recorded with the table: seven tickers, QQQM the largest
WeightTableSumsToOneWitness ==
    /\ Succeeded("record")
    /\ DOMAIN last.ret.allocations = DOMAIN weights
    /\ Cardinality(DOMAIN weights) = 7
    /\ \A ticker \in DOMAIN weights : weights[ticker] <= weights["QQQM"]

\* C17: the deposits a window of D days returns are those of the ledger
\* stamped at or after now - D days, now being the clock the window read:
\* as many as the ledger holds of them, each stamped inside and each a
\* record of the ledger; a deposit stamped exactly now - D days is one.
WindowMembership ==
    last.op = "in_range" =>
        LET D       == last.arg
            now     == last.ret.now
            members == last.ret.members
            inside  == {i \in 1..Len(LedgerBefore) :
                           LedgerBefore[i].timestamp + D >= now}
        IN  /\ Len(members) = Cardinality(inside)
            /\ \A j \in 1..Len(members) :
                   /\ members[j].timestamp + D >= now
                   /\ \E i \in inside : LedgerBefore[i] = members[j]

\* the week's window was taken seven days after a deposit: the deposit,
\* stamped exactly at the cutoff, is a member
WindowMembershipWitness ==
    /\ last.op = "in_range"
    /\ last.arg = WeekDays
    /\ Len(LedgerBefore) >= 1
    /\ LedgerBefore[1].timestamp + WeekDays = last.ret.now
    /\ LedgerBefore[1] = last.ret.members[1]

\* the week's window was taken eight days after a deposit, and seven days
\* after another: the first is left out
WindowMembershipOutsideWitness ==
    /\ last.op = "in_range"
    /\ last.arg = WeekDays
    /\ Len(LedgerBefore) = 2
    /\ LedgerBefore[1].timestamp + WeekDays < last.ret.now
    /\ last.ret.members = <<LedgerBefore[2]>>

\* what the ledger on disk may be after the last operation, given the one
\* the operation found; a file that cannot be loaded gives no record back
LedgerStep ==
    LET before == LedgerBefore
        after  == Ledger
        N      == Len(before)
        same   == after = before
    IN  /\ last.op = "record" =>
               \/ same
               \/ Len(after) = N + 1 /\ SubSeq(after, 1, N) = before
        /\ last.op = "popLast" =>
               \/ same
               \/ N >= 1 /\ after = SubSeq(before, 1, N - 1)
        /\ last.op = "clear" =>
               \/ same
               \/ after = <<>>
        /\ last.op \notin Mutations => same

\* C18: an operation leaves the ledger as it found it, or appends one
\* record to it (record), or removes its last record (popLast), or empties
\* it (clear); no other record is removed, reordered or rewritten.
LedgerChangesOnlyAsSpecified == LedgerStep

\* the same of the operations the disk did not fail
LedgerChangesOnlyAsSpecifiedNoFault ==
    last.outcome # "OSError" => LedgerStep

\* a deposit was appended to a ledger of one record
LedgerChangesOnlyAsSpecifiedNoFaultWitness ==
    /\ Succeeded("record")
    /\ Len(LedgerBefore) = 1
    /\ Ledger = Append(LedgerBefore, last.ret)

\* C19: the records of the ledger stand in the order of their timestamps:
\* of any two, the earlier in the list is stamped no later than the other
\* (the clock of the model never runs backward).
LedgerInTimestampOrder ==
    \A i, j \in 1..Len(Ledger) :
        i < j => Ledger[i].timestamp <= Ledger[j].timestamp

\* a deposit was recorded days after another
LedgerInTimestampOrderWitness ==
    /\ Succeeded("record")
    /\ Len(Ledger) = 2
    /\ Ledger[1].timestamp < Ledger[2].timestamp

\* two deposits were recorded at the same instant
LedgerEqualTimestampsWitness ==
    /\ Succeeded("record")
    /\ Len(Ledger) = 2
    /\ Ledger[1].timestamp = Ledger[2].timestamp

\* C20: every record of the ledger holds an amount strictly above zero,
\* whatever was typed at the prompt.
EveryAmountPositive == AllPositive(Ledger)

\* the same of what was typed and is a number
EveryNumberPositive ==
    \A i \in 1..Len(Ledger) :
        ~Ledger[i].amount.nan => FGt(Ledger[i].amount, F(0))

\* 0 and -5 were refused and 50 was recorded
EveryNumberPositiveWitness ==
    /\ Succeeded("record")
    /\ last.ret.amount = F(5000)
    /\ AllPositive(Ledger)

\* a deletion was confirmed on a ledger that held a record
PopLastConfirmed ==
    /\ last.op = "popLast"
    /\ strip(last.arg) = "YES"
    /\ LoadedBefore
    /\ LedgerBefore # <<>>

\* the last call removed the last record of the ledger, the one it had
\* shown, and nothing else
PopLastRemovedOne ==
    /\ last.ret = LedgerBefore[Len(LedgerBefore)]
    /\ load_data(file).ok
    /\ Ledger = SubSeq(LedgerBefore, 1, Len(LedgerBefore) - 1)

\* C21: a confirmed deletion is all or nothing and removes one record only:
\* it succeeds and the ledger is the one it found less its last record, the
\* record shown for confirmation, or it fails and the ledger is as it was.
PopLastAtomic ==
    PopLastConfirmed =>
        \/ last.outcome = "ok" /\ PopLastRemovedOne
        \/ last.outcome # "ok" /\ load_data(file) = load_data(last.pre)

\* the same of the deletions that did not fail while writing
PopLastAtomicNoWriteFault ==
    (PopLastConfirmed /\ file.valid) =>
        \/ last.outcome = "ok" /\ PopLastRemovedOne
        \/ last.outcome # "ok" /\ load_data(file) = load_data(last.pre)

\* two deletions in a row took a ledger of two records to none
PopLastAtomicNoWriteFaultWitness ==
    /\ PopLastConfirmed
    /\ last.outcome = "ok"
    /\ last.after = "popLast"
    /\ Len(LedgerBefore) = 1
    /\ Ledger = <<>>

StoredTickers(deposits) ==
    UNION {DOMAIN deposits[i].allocations : i \in 1..Len(deposits)}

\* the cents the records allocated to ticker, none where a record has no
\* allocation for it
StoredCents(deposits, ticker) ==
    CentsOver([i \in 1..Len(deposits) |->
                  IF ticker \in DOMAIN deposits[i].allocations
                  THEN deposits[i].allocations[ticker].v ELSE 0],
              1..Len(deposits))

\* the statistics of a ledger that holds a record reported, for every
\* ticker a record holds, the sum of the stored allocations
TotalsOfStored ==
    /\ last.outcome = "ok"
    /\ \A ticker \in StoredTickers(LedgerBefore) :
           /\ ticker \in DOMAIN last.ret.portfolio_totals
           /\ FEq(last.ret.portfolio_totals[ticker],
                  F(StoredCents(LedgerBefore, ticker)))

\* C23: a change of the weight table leaves the file and its records as
\* they were, and the statistics taken with whatever table still report,
\* per ticker, the sum of the allocations stored in the records.
WeightChangeKeepsTotals ==
    /\ last.op = "configure" => file = last.pre
    /\ (last.op = "statistics" /\ LoadedBefore /\ LedgerBefore # <<>>) =>
           TotalsOfStored

\* the same where the table still holds every ticker the records hold
WeightChangeKeepsTotalsOfKept ==
    /\ last.op = "configure" => file = last.pre
    /\ (/\ last.op = "statistics" /\ LoadedBefore /\ LedgerBefore # <<>>
        /\ StoredTickers(LedgerBefore) \subseteq DOMAIN weights) =>
           TotalsOfStored

\* statistics under the table with a ticker added, of a record made before
WeightChangeKeepsTotalsOfKeptWitness ==
    /\ Succeeded("statistics")
    /\ weights = Extended
    /\ "VOO" \notin StoredTickers(LedgerBefore)
    /\ last.ret.portfolio_totals["VOO"] = F(0)
    /\ last.ret.portfolio_totals["QQQM"] = F(1750)

\* C24: the means and counts a statistics call returns are those of the
\* ledger it loaded with all four windows cut off from one instant now.
StatisticsOfOneInstant ==
    Succeeded("statistics") =>
        \E now \in Instants :
            LET stats == calculate_averages(LedgerBefore, <<now, now, now, now>>)
            IN  /\ last.ret.averages = stats.averages
                /\ last.ret.counts = stats.counts

\* the days of the window named w
DaysOf(w) ==
    CASE w = "week"       -> WeekDays
      [] w = "month"      -> MonthDays
      [] w = "six_months" -> SixMonthDays
      [] w = "year"       -> YearDays

\* count and mean are those of the records of deposits numbered in members:
\* their number, and the sum of their amounts divided by it
CountAndMeanOf(deposits, members, count, average) ==
    /\ count = Cardinality(members)
    /\ members # {} =>
           FEq(average,
               F(CentsOver([i \in members |-> deposits[i].amount.v], members)
                     \div Cardinality(members)))

\* the statistics shown report, for each of the four windows, the count
\* and mean of the deposits stamped at or after some reading of the clock
\* less the window's days, and for all time those of the whole ledger
WindowCountsAndMeans ==
    /\ \A w \in WindowNames \ {"all_time"} :
           \E now \in Instants :
               CountAndMeanOf(LedgerBefore,
                              {i \in 1..Len(LedgerBefore) :
                                  LedgerBefore[i].timestamp + DaysOf(w) >= now},
                              last.ret.counts[w], last.ret.averages[w])
    /\ last.ret.counts.all_time = Len(LedgerBefore)
    /\ CountAndMeanOf(LedgerBefore, 1..Len(LedgerBefore),
                      last.ret.counts.all_time, last.ret.averages.all_time)

\* C25: in every statistics result, a window with members reports their
\* number as its count and the sum of their amounts divided by that number
\* as its mean; the all-time count is the length of the ledger.
WindowMeanIsSumOverCount ==
    Succeeded("statistics") => WindowCountsAndMeans

\* the same of the ledgers that hold no amount but numbers above zero
WindowMeanIsSumOverCountPositive ==
    (Succeeded("statistics") /\ AllPositive(LedgerBefore)) =>
        WindowCountsAndMeans

\* 100 and, days later, 50 were recorded; a week after the first the week
\* holds the second alone and all time holds both, mean 75
WindowMeanIsSumOverCountPositiveWitness ==
    /\ Succeeded("statistics")
    /\ Amounts(LedgerBefore) = <<F(10000), F(5000)>>
    /\ last.ret.counts.week = 1
    /\ last.ret.averages.week = F(5000)
    /\ last.ret.counts.all_time = 2
    /\ last.ret.averages.all_time = F(7500)

\* the operations that read the ledger and show it
ReadOps == {"statistics", "history"}

\* C26: statistics (with its totals) and the history view leave the file,
\* and so the ledger, as they found it; the history shown after any of
\* them is the history of the file they found.
ReadsLeaveLedger ==
    [][/\ last'.op \in ReadOps => file' = file
       /\ (last.op \in ReadOps /\ last'.op = "history") =>
              /\ file = last.pre
              /\ last'.ret = view_history(last.pre, Limit(last'.arg)).ret]_vars

\* the last of two deposits was listed and both are on file
ReadsLeaveLedgerWitness ==
    /\ Succeeded("history")
    /\ last.after = "record"
    /\ Len(last.ret.rows) = 1
    /\ Len(Ledger) = 2
    /\ file = last.pre

\* the records the runs have added less those they have deleted
NetOf(S) == CentsOver([u \in S |-> users[u].net], S)

Confirmed == {"popLast", "clear"}

\* C28 as claimed: a deletion or a reset whose answer is any text other
\* than YES leaves the file as it was.
UnconfirmedLeavesLedger ==
    (last.op \in Confirmed /\ last.arg # "YES") => file = last.pre

\* C28: a deletion or a reset whose answer, with the white space around it
\* stripped, is anything other than YES changes nothing: the file is as it
\* was and the operation reports no deletion.
UnconfirmedStrippedLeavesLedger ==
    (last.op \in Confirmed /\ strip(last.arg) # "YES") =>
        /\ file = last.pre
        /\ last.outcome \in {"cancelled", "EmptyLedger", "JSONDecodeError"}

\* a reset of a ledger of two deposits was answered no
UnconfirmedStrippedLeavesLedgerWitness ==
    /\ last.op = "clear"
    /\ last.arg = "no"
    /\ last.outcome = "cancelled"
    /\ Len(Ledger) = 2

\* a deletion was answered no and the deposit shown is still the last
UnconfirmedPopWitness ==
    /\ last.op = "popLast"
    /\ last.arg = "no"
    /\ last.outcome = "cancelled"
    /\ last.ret = Ledger[Len(Ledger)]

\* two mappings with the same tickers and, for each, equal values
SameMapping(m1, m2) ==
    /\ DOMAIN m1 = DOMAIN m2
    /\ \A ticker \in DOMAIN m1 : FEq(m1[ticker], m2[ticker])

ListsNewest(k) ==
    /\ Len(last.ret.rows) = k
    /\ \A i \in 1..Len(last.ret.rows) :
           i <= Len(LedgerBefore) =>
               last.ret.rows[i] = LedgerBefore[Len(LedgerBefore) + 1 - i]

\* C30: the history of a ledger that holds a deposit announces and lists
\* min(limit, number of deposits) records, the most recent, newest first,
\* whatever integer the limit is.
HistoryListsWhatItAnnounces ==
    Succeeded("history") =>
        /\ last.ret.header = Min(Limit(last.arg), Len(LedgerBefore))
        /\ ListsNewest(last.ret.header)

\* the same of the limits of 1 and more
HistoryListsWhatItAnnouncesFromOne ==
    (Succeeded("history") /\ Limit(last.arg) >= 1) =>
        /\ last.ret.header = Min(Limit(last.arg), Len(LedgerBefore))
        /\ ListsNewest(last.ret.header)

\* the last of two deposits was asked for and listed
HistoryListsWhatItAnnouncesFromOneWitness ==
    /\ Succeeded("history")
    /\ last.arg = "1"
    /\ Len(LedgerBefore) = 2
    /\ last.ret.header = 1
    /\ last.ret.rows = <<LedgerBefore[2]>>

====
